---- MODULE Spec2Model ----
(***************************************************************************)
(* Imagen (src/src/app.js, lines 1-1100): the batch tracker               *)
(* (state.pendingBatches), the gallery (state.images), the IndexedDB      *)
(* store behind ImagenDB and the rendered gallery, as a state machine.    *)
(*                                                                         *)
(* One step of the model is one task of the browser's event loop: a       *)
(* handler runs from its start (or from the await it resumed at) to its   *)
(* next await.  The continuation of generateImages after                  *)
(* Promise.allSettled is a microtask that follows the handler of the      *)
(* batch's last unit, so it is a step of its own (Finalize) that runs     *)
(* before any other task.                                                  *)
(***************************************************************************)
EXTENDS Integers, Sequences, FiniteSets, TLC

VARIABLES
    now,             \* the wall clock read by Date.now() and new Date(), in ms
    phase,           \* "loading": init awaits getAllImages; "ready": listeners installed
    apiKey,          \* state.apiKey
    promptInput,     \* elements.promptInput.value, a sequence of characters
    selectedModel,   \* state.selectedModel
    imageSize,       \* state.imageSize
    imageQuality,    \* state.imageQuality
    aspectRatio,     \* state.aspectRatio
    imageCount,      \* state.imageCount
    references,      \* state.references
    images,          \* state.images
    pendingBatches,  \* state.pendingBatches: references to the batch objects of calls
    calls,           \* the closures of the generateImages calls of this page; of each
                     \* call, atCall (the live settings when it was made), fresh
                     \* (the id of a unit's record was new to the gallery), outcome,
                     \* inserted and notice record what happened, and are not read
    store,           \* the records of the IndexedDB object store 'images'
    storeQ,          \* the store operations issued and not yet completed, in order
    view,            \* the gallery as the last renderGallery left it
    toast,           \* the notifications shown by the last step
    currentImage,    \* state.currentImage: << >> for null, <<record>> in the modal
    prefs,           \* localStorage
    idb,             \* ImagenDB: its db field, the connections opened by this page
                     \* and the stage of each store operation called
    nRequested,      \* images asked for by the batches created, over all page loads
    nUserOps         \* user actions other than generate, over all page loads

vars == <<now, phase, apiKey, promptInput, selectedModel, imageSize, imageQuality,
          aspectRatio, imageCount, references, images, pendingBatches, calls,
          store, storeQ, idb, view, toast, currentImage, prefs, nRequested,
          nUserOps>>

settings == <<apiKey, promptInput, selectedModel, imageSize, imageQuality,
              aspectRatio, imageCount, references, currentImage, prefs>>

gallery == <<images, pendingBatches, calls, store, storeQ, view, nRequested>>

----------------------------------------------------------------------------
(* Bounds of the model *)

MaxRequested == 2
MaxTime == 1
RandomLevels == 2
MaxUserOps == 3
MaxRefs == 2
MaxSettingsRefs == 1
MaxStoreOps == 3

\* "if (state.imageCount < 8)", "if (val > 8) val = 8"
CountLimit == 8

----------------------------------------------------------------------------
(* Values *)

NoValue == "undefined"

\* a URL that is not a string: a JSON number, object or true in the url field
NonStringUrl == "<json:42>"

DataUrl == "data:image/png;base64,AAAA"

HttpsUrl == "https://cdn.example/a.png"

\* a URL of a scheme that sanitizeImageUrl blocks
HttpUrl == "http://cdn.example/a.png"

\* what generateSingleImage can return for a response that carries an image
ResultUrls == {DataUrl, NonStringUrl}

Chars == {" ", "a", "b"}

PromptTexts == {<< >>, <<" ">>, <<"a">>, <<"b", " ">>}

ApiKeys == {"", "sk-or-1"}

\* an entry of MODEL_CONFIGS
ModelConfig(name, supportsImageSize, supportsAspectRatio, supportsImageInput, maxReferences) ==
    [name |-> name, supportsImageSize |-> supportsImageSize,
     supportsAspectRatio |-> supportsAspectRatio,
     supportsImageInput |-> supportsImageInput, maxReferences |-> maxReferences]

MODEL_CONFIGS ==
    "google/gemini-2.5-flash-image" :>
        ModelConfig("Gemini 2.5 Flash Image", TRUE, TRUE, TRUE, 3)
    @@ "google/gemini-2.5-flash-image-preview" :>
        ModelConfig("Gemini 2.5 Flash Image (Preview)", TRUE, TRUE, TRUE, 3)
    @@ "google/gemini-3-pro-image-preview" :>
        ModelConfig("Gemini 3 Pro Image (Preview)", TRUE, TRUE, TRUE, 14)
    @@ "openai/gpt-5-image" :>
        ModelConfig("GPT-5 Image", FALSE, TRUE, TRUE, 1)
    @@ "openai/gpt-5-image-mini" :>
        ModelConfig("GPT-5 Image Mini", FALSE, TRUE, TRUE, 1)
    @@ "black-forest-labs/flux.2-pro" :>
        ModelConfig("Flux 2 Pro", FALSE, TRUE, FALSE, 0)
    @@ "black-forest-labs/flux.2-max" :>
        ModelConfig("Flux 2 Max", FALSE, TRUE, FALSE, 0)
    @@ "black-forest-labs/flux.2-flex" :>
        ModelConfig("Flux 2 Flex", FALSE, TRUE, FALSE, 0)
    @@ "black-forest-labs/flux.2-klein-4b" :>
        ModelConfig("Flux 2 Klein 4B", FALSE, TRUE, FALSE, 0)
    @@ "bytedance-seed/seedream-4.5" :>
        ModelConfig("Seedream 4.5", FALSE, TRUE, FALSE, 0)
    @@ "sourceful/riverflow-v2-fast-preview" :>
        ModelConfig("Riverflow V2 Fast", FALSE, TRUE, FALSE, 0)
    @@ "sourceful/riverflow-v2-standard-preview" :>
        ModelConfig("Riverflow V2 Standard", FALSE, TRUE, FALSE, 0)
    @@ "sourceful/riverflow-v2-max-preview" :>
        ModelConfig("Riverflow V2 Max", FALSE, TRUE, FALSE, 0)

\* the options of the model dropdown that the specifications of the settings
\* select: one model of each combination of capabilities of the table
Models == {"google/gemini-2.5-flash-image", "openai/gpt-5-image",
           "black-forest-labs/flux.2-pro"}

----------------------------------------------------------------------------
(* Pure functions *)

\* Trim, had the prompt been read without .trim()
NoTrim(s) == s

\* String.prototype.trim on a sequence of characters
RECURSIVE TrimStart(_)
TrimStart(s) ==
    IF s = << >> THEN << >>
    ELSE IF Head(s) = " " THEN TrimStart(Tail(s)) ELSE s

RECURSIVE TrimEnd(_)
TrimEnd(s) ==
    IF s = << >> THEN << >>
    ELSE IF s[Len(s)] = " " THEN TrimEnd(SubSeq(s, 1, Len(s) - 1)) ELSE s

Trim(s) == TrimEnd(TrimStart(s))

\* new Date().toISOString(): the ms of the clock, as an ISO string
ToISOString(ms) == <<"iso", ms>>

\* new Date(createdAt): the ms an ISO string stands for
DateValue(iso) == iso[2]

\* Date.now() + index + Math.random(): the sum in units of 1 / RandomLevels
NewId(t, index, rnd) == (t + index) * RandomLevels + rnd

\* array.splice(index, 1) with a 1-based position; out of range removes nothing
Splice(s, i) ==
    IF i \in 1..Len(s) THEN SubSeq(s, 1, i - 1) \o SubSeq(s, i + 1, Len(s)) ELSE s

\* url.startsWith(...) of sanitizeImageUrl raises a TypeError on a non-string
SanitizeThrows(url) == url = NonStringUrl

\* String.prototype.startsWith
StartsWith(str, prefix) ==
    Len(str) >= Len(prefix) /\ SubSeq(str, 1, Len(prefix)) = prefix

\* url.replace(/"/g, '%22').replace(/'/g, '%27')
RECURSIVE EscapeQuotes(_)
EscapeQuotes(url) ==
    IF url = "" THEN ""
    ELSE LET ch == SubSeq(url, 1, 1)
             rest == EscapeQuotes(SubSeq(url, 2, Len(url)))
         IN  IF ch = "\"" THEN "%22" \o rest
             ELSE IF ch = "'" THEN "%27" \o rest
             ELSE ch \o rest

\* sanitizeImageUrl on a string: the url when it is a data:image/ URI, the
\* url with its quotes escaped when it is an https:// URL, and '' otherwise
sanitizeImageUrl(url) ==
    IF url = "" THEN ""
    ELSE IF StartsWith(url, "data:image/") THEN url
    ELSE IF StartsWith(url, "https://") THEN EscapeQuotes(url)
    ELSE ""

----------------------------------------------------------------------------
(* renderGallery *)

\* renderGallery raises when a record's url is not a string (sanitizeImageUrl)
RenderThrows(imgs) == \E i \in 1..Len(imgs) : SanitizeThrows(imgs[i].url)

\* the cards built before renderGallery returns or raises, in order
RECURSIVE CardsOf(_)
CardsOf(imgs) ==
    IF imgs = << >> \/ SanitizeThrows(Head(imgs).url) THEN << >>
    ELSE <<Head(imgs)>> \o CardsOf(Tail(imgs))

\* batch.count - batch.completed - batch.failed
PendingCount(batch) == batch.count - batch.completed - batch.failed

\* "for (let i = 0; i < pendingCount; i++)": n copies of x, none when n <= 0
RECURSIVE Copies(_, _)
Copies(x, n) == IF n <= 0 THEN << >> ELSE <<x>> \o Copies(x, n - 1)

\* one placeholder per pending unit of each batch of pend, batches in order
RECURSIVE PlaceholdersOf(_, _)
PlaceholdersOf(pend, cs) ==
    IF pend = << >> THEN << >>
    ELSE Copies(Head(pend), PendingCount(cs[Head(pend)].batch))
            \o PlaceholdersOf(Tail(pend), cs)

\* the gallery element after renderGallery() on the given state
renderGallery(imgs, pend, cs) ==
    IF Len(imgs) = 0 /\ Len(pend) = 0
    THEN [empty |-> TRUE, placeholders |-> << >>, cards |-> << >>]
    ELSE [empty |-> FALSE, placeholders |-> PlaceholdersOf(pend, cs),
          cards |-> CardsOf(imgs)]

----------------------------------------------------------------------------
(* ImagenDB *)

\* ImagenDB when the script has been evaluated: db is null (0 here, the n-th
\* connection opened by the page being n), and no operation has been called
ClosedDB == [db |-> 0, opened |-> 0, ops |-> << >>]

\* store.getAll(): the records in ascending key (id) order
RECURSIVE KeyOrder(_)
KeyOrder(S) ==
    IF S = {} THEN << >>
    ELSE LET m == CHOOSE r \in S : \A q \in S : r.id <= q.id
         IN  <<m>> \o KeyOrder(S \ {m})

\* InsertNewestFirst, had the comparator been (a, b) => new Date(a.createdAt) -
\* new Date(b.createdAt)
RECURSIVE InsertOldestFirst(_, _)
InsertOldestFirst(s, r) ==
    IF s = << >> THEN <<r>>
    ELSE IF DateValue(r.createdAt) - DateValue(Head(s).createdAt) >= 0
         THEN <<Head(s)>> \o InsertOldestFirst(Tail(s), r)
         ELSE <<r>> \o s

\* one step of the stable sort with (a, b) => new Date(b.createdAt) - new Date(a.createdAt)
RECURSIVE InsertNewestFirst(_, _)
InsertNewestFirst(s, r) ==
    IF s = << >> THEN <<r>>
    ELSE IF DateValue(Head(s).createdAt) - DateValue(r.createdAt) >= 0
         THEN <<Head(s)>> \o InsertNewestFirst(Tail(s), r)
         ELSE <<r>> \o s

RECURSIVE SortNewestFirst(_, _)
SortNewestFirst(src, acc) ==
    IF src = << >> THEN acc
    ELSE SortNewestFirst(Tail(src), InsertNewestFirst(acc, Head(src)))

\* getAllImages, had it resolved with request.result as the store returns it
getAllImagesUnsorted(st) == KeyOrder(st)

\* ImagenDB.getAllImages on a store holding the records st
getAllImages(st) == SortNewestFirst(KeyOrder(st), << >>)

\* store.put(imageData): insert or replace by key
StorePut(st, r) == {q \in st : q.id # r.id} \cup {r}

\* store.delete(id)
StoreDelete(st, id) == {q \in st : q.id # id}

----------------------------------------------------------------------------
(* Settings and their controls *)

\* the .btn-toggle buttons: data-size and data-quality of each
SizeButtons == {[size |-> "1024x1024", quality |-> "1K"],
                [size |-> "2048x2048", quality |-> "2K"]}

\* the .btn-aspect buttons: data-ratio of each
AspectButtons == {"1:1", "16:9"}

\* the images a user can upload, paste or drop as a reference (FileReader results)
UploadUrls == {"data:image/png;base64,REFA"}

\* localStorage holds strings: << >> is an absent key (getItem returns null),
\* <<v>> the stored string; a number n is stored as its decimal string, kept as n
Stored(v) == <<v>>

\* localStorage.getItem(key) || dflt
GetItemOr(ls, key, dflt) ==
    IF ls[key] = << >> THEN dflt
    ELSE IF ls[key][1] = "" THEN dflt ELSE ls[key][1]

\* parseInt(localStorage.getItem(key)) || dflt: NaN and 0 give dflt
ParseIntOr(ls, key, dflt) ==
    IF ls[key] = << >> THEN dflt
    ELSE IF ls[key][1] = 0 THEN dflt ELSE ls[key][1]

\* the value of a decimal digit, -1 for any other character
DigitValue(ch) ==
    CASE ch = "0" -> 0 [] ch = "1" -> 1 [] ch = "2" -> 2 [] ch = "3" -> 3
      [] ch = "4" -> 4 [] ch = "5" -> 5 [] ch = "6" -> 6 [] ch = "7" -> 7
      [] ch = "8" -> 8 [] ch = "9" -> 9 [] OTHER -> -1

\* the position of the first character of str from k on that is not a space
RECURSIVE SkipSpaces(_, _)
SkipSpaces(str, k) ==
    IF k <= Len(str) /\ SubSeq(str, k, k) = " " THEN SkipSpaces(str, k + 1) ELSE k

\* the number read from the digits of str from k on, after the digits read so far
RECURSIVE ParseDigits(_, _, _)
ParseDigits(str, k, acc) ==
    IF k <= Len(str) /\ DigitValue(SubSeq(str, k, k)) >= 0
    THEN ParseDigits(str, k + 1, 10 * acc + DigitValue(SubSeq(str, k, k)))
    ELSE acc

\* parseInt(str): leading spaces are skipped, a sign is read, then the digits
\* up to the first other character; << >> stands for NaN (no digit read)
ParseInt(str) ==
    LET s == SkipSpaces(str, 1)
        signed == s <= Len(str) /\ SubSeq(str, s, s) \in {"-", "+"}
        d == IF signed THEN s + 1 ELSE s
    IN  IF d <= Len(str) /\ DigitValue(SubSeq(str, d, d)) >= 0
        THEN <<(IF signed /\ SubSeq(str, s, s) = "-" THEN -1 ELSE 1)
                    * ParseDigits(str, d, 0)>>
        ELSE << >>

\* what the user can leave in the image count field
CountInputs == {"", "0", "-3", "3", "8", "9", "2.7", "abc", " 12"}

\* localStorage of a browser that never ran the application
NoPrefs == [imagen_api_key |-> << >>, imagen_model |-> << >>,
            imagen_size |-> << >>, imagen_quality |-> << >>,
            imagen_aspect_ratio |-> << >>, imagen_count |-> << >>]

\* localStorage left by an earlier session: a key was saved, two images asked for
ReturningPrefs == [NoPrefs EXCEPT !.imagen_api_key = Stored("sk-or-1"),
                                  !.imagen_count = Stored(2)]

\* String.prototype.includes: sub occurs in str
Includes(str, sub) ==
    \E k \in 1..(Len(str) - Len(sub) + 1) : SubSeq(str, k, k + Len(sub) - 1) = sub

\* state.selectedModel.includes('gemini')
IsGemini(m) == Includes(m, "gemini")

\* String.prototype.toLowerCase on the quality labels
ToLowerCase(q) == CASE q = "1K" -> "1k" [] q = "2K" -> "2k" [] OTHER -> q

\* RequestBody, had the references been added whatever the model accepts
RequestBodyAnyModel(prompt, modelConfig, model, refs, quality, ratio, key) ==
    [model |-> model,
     images |-> refs,
     text |-> prompt,
     content |-> IF Len(refs) = 0 THEN "string" ELSE "parts",
     image_config |->
        IF modelConfig.supportsImageSize /\ IsGemini(model)
        THEN <<[image_size |-> ToLowerCase(quality), aspect_ratio |-> ratio]>>
        ELSE << >>,
     aspect_ratio |->
        IF modelConfig.supportsAspectRatio /\ ~IsGemini(model)
        THEN ratio ELSE NoValue,
     authorization |-> key]

\* RequestBody, had the top-level aspect ratio been sent to every model that
\* supports an aspect ratio
RequestBodyAspectRatioAlways(prompt, modelConfig, model, refs, quality, ratio, key) ==
    LET parts == IF modelConfig.supportsImageInput THEN refs ELSE << >>
    IN  [model |-> model,
         images |-> parts,
         text |-> prompt,
         content |-> IF Len(parts) = 0 THEN "string" ELSE "parts",
         image_config |->
            IF modelConfig.supportsImageSize /\ IsGemini(model)
            THEN <<[image_size |-> ToLowerCase(quality), aspect_ratio |-> ratio]>>
            ELSE << >>,
         aspect_ratio |-> IF modelConfig.supportsAspectRatio THEN ratio ELSE NoValue,
         authorization |-> key]

\* the body of the POST that generateSingleImage sends, built from the live state
RequestBody(prompt, modelConfig, model, refs, quality, ratio, key) ==
    LET parts == IF modelConfig.supportsImageInput THEN refs ELSE << >>
    IN  [model |-> model,
         images |-> parts,
         text |-> prompt,
         content |-> IF Len(parts) = 0 THEN "string" ELSE "parts",
         image_config |->
            IF modelConfig.supportsImageSize /\ IsGemini(model)
            THEN <<[image_size |-> ToLowerCase(quality), aspect_ratio |-> ratio]>>
            ELSE << >>,
         aspect_ratio |->
            IF modelConfig.supportsAspectRatio /\ ~IsGemini(model)
            THEN ratio ELSE NoValue,
         authorization |-> key]

----------------------------------------------------------------------------
(* generateSingleImage: the image of a response *)

\* base64 payloads of images (a PNG and a JPEG)
PngPayload == "iVBORw0KGgo="
JpegPayload == "/9j/4AAQSkZJRg=="

\* `data:${mimeType};base64,${data}`
DataUri(mimeType, data) == "data:" \o mimeType \o ";base64," \o data

\* An entry of message.images: str is the entry when it is a string; image_url
\* is image_url.url, url and b64_json the fields of those names of an object.
\* "" stands for a value that is absent (or falsy).
Entry(str, image_url, url, b64_json) ==
    [str |-> str, image_url |-> image_url, url |-> url, b64_json |-> b64_json]

\* A part of an array message.content
Part(type, image_url, data, mimeType, image) ==
    [type |-> type, image_url |-> image_url, data |-> data, mimeType |-> mimeType,
     image |-> image]

TextPart == Part("text", "", "", "", "")

\* the images lists of the responses considered
ImageLists ==
    {<< >>,
     <<Entry("", DataUrl, "", "")>>,
     <<Entry("", NonStringUrl, "", "")>>,
     <<Entry(PngPayload, "", "", "")>>,
     <<Entry(HttpsUrl, "", "", "")>>,
     <<Entry("", "", HttpsUrl, "")>>,
     <<Entry("", "", "", JpegPayload)>>,
     <<Entry("", "", "", ""), Entry("", DataUrl, "", "")>>}

\* the contents of the responses considered: a string, or an array of parts
Contents ==
    {[isArray |-> FALSE, text |-> "", parts |-> << >>],
     [isArray |-> FALSE, text |-> "Here is your image", parts |-> << >>],
     [isArray |-> FALSE, text |-> DataUri("image/webp", PngPayload), parts |-> << >>],
     [isArray |-> TRUE, text |-> "",
      parts |-> <<TextPart, Part("image_url", HttpsUrl, "", "", "")>>],
     [isArray |-> TRUE, text |-> "",
      parts |-> <<Part("image_url", "", "", "", ""),
                  Part("", "", JpegPayload, "image/jpeg", ""),
                  Part("image", "", "", "", PngPayload)>>],
     [isArray |-> TRUE, text |-> "", parts |-> <<Part("", "", PngPayload, "", "")>>],
     [isArray |-> TRUE, text |-> "",
      parts |-> <<TextPart, Part("image", "", "", "", JpegPayload)>>],
     [isArray |-> TRUE, text |-> "",
      parts |-> <<Part("image", "", "", "", DataUri("image/jpeg", JpegPayload)),
                  Part("image_url", HttpsUrl, "", "", "")>>]}

\* data.choices[0].message of the responses considered
Messages == {[images |-> il, content |-> ct] : il \in ImageLists, ct \in Contents}

\* "if (message.images && message.images.length > 0)": << >> when the first
\* entry yields nothing, <<url>> when it does
FromImages(message) ==
    IF Len(message.images) > 0
    THEN LET img == message.images[1] IN
         IF img.image_url # "" THEN <<img.image_url>>
         ELSE IF img.str # ""
              THEN IF StartsWith(img.str, "data:") \/ StartsWith(img.str, "http")
                   THEN <<img.str>>
                   ELSE <<DataUri("image/png", img.str)>>
         ELSE IF img.url # "" THEN <<img.url>>
         ELSE IF img.b64_json # "" THEN <<DataUri("image/png", img.b64_json)>>
         ELSE << >>
    ELSE << >>

\* "for (const part of message.content)": the first part that returns
RECURSIVE FromParts(_)
FromParts(parts) ==
    IF parts = << >> THEN << >>
    ELSE LET part == Head(parts) IN
         IF part.type = "image_url" /\ part.image_url # "" THEN <<part.image_url>>
         ELSE IF part.data # ""
              THEN <<DataUri(IF part.mimeType # "" THEN part.mimeType ELSE "image/png",
                             part.data)>>
         ELSE IF part.type = "image" /\ part.image # ""
              THEN IF StartsWith(part.image, "data:")
                   THEN <<part.image>>
                   ELSE <<DataUri("image/png", part.image)>>
         ELSE FromParts(Tail(parts))

\* FromString, had every non-empty string content been taken for the image
FromStringAnyText(content) ==
    IF ~content.isArray /\ content.text # ""
    THEN <<content.text>> ELSE << >>

\* "typeof message.content === 'string' && message.content.startsWith('data:image')"
FromString(content) ==
    IF ~content.isArray /\ StartsWith(content.text, "data:image")
    THEN <<content.text>> ELSE << >>

\* ExtractImage, had the content of the message been looked at before its
\* images list
ExtractImageContentFirst(message) ==
    LET fromParts == IF message.content.isArray
                     THEN FromParts(message.content.parts) ELSE << >>
    IN  IF fromParts # << >> THEN fromParts
        ELSE IF FromString(message.content) # << >> THEN FromString(message.content)
        ELSE FromImages(message)

\* the extraction of generateSingleImage: <<url>> for the value it returns,
\* << >> when it throws 'No image in response'
ExtractImage(message) ==
    IF FromImages(message) # << >> THEN FromImages(message)
    ELSE LET fromParts == IF message.content.isArray
                          THEN FromParts(message.content.parts) ELSE << >>
         IN  IF fromParts # << >> THEN fromParts
             ELSE FromString(message.content)

----------------------------------------------------------------------------
(* The event loop *)

AllSettled(cl) == \A i \in DOMAIN cl.units : cl.units[i].status = "settled"

\* a generateImages call whose Promise.allSettled has resolved: its continuation
\* is a queued microtask, which runs before the next task
MicrotaskPending ==
    \E c \in DOMAIN calls : calls[c].phase = "running" /\ AllSettled(calls[c])

\* a task (event handler, network or store completion) can start
Idle == phase = "ready" /\ ~MicrotaskPending

Toast(type, msg, n) == [type |-> type, msg |-> msg, n |-> n]

\* a user action of the bounded run
UserOp == nUserOps < MaxUserOps /\ nUserOps' = nUserOps + 1

----------------------------------------------------------------------------
(* Page load *)

\* the fields of `state` that the page load reads from localStorage
StateFromPrefs ==
    /\ apiKey' = GetItemOr(prefs, "imagen_api_key", "")
    /\ selectedModel' = GetItemOr(prefs, "imagen_model", "google/gemini-2.5-flash-image")
    /\ imageSize' = GetItemOr(prefs, "imagen_size", "1024x1024")
    /\ imageQuality' = GetItemOr(prefs, "imagen_quality", "1K")
    /\ aspectRatio' = GetItemOr(prefs, "imagen_aspect_ratio", "1:1")
    /\ imageCount' = ParseIntOr(prefs, "imagen_count", 1)

EmptyView == [empty |-> TRUE, placeholders |-> << >>, cards |-> << >>]

Init ==
    /\ now = 0
    /\ phase = "loading"
    /\ prefs \in {NoPrefs, ReturningPrefs}
    /\ apiKey = GetItemOr(prefs, "imagen_api_key", "")
    /\ selectedModel = GetItemOr(prefs, "imagen_model", "google/gemini-2.5-flash-image")
    /\ imageSize = GetItemOr(prefs, "imagen_size", "1024x1024")
    /\ imageQuality = GetItemOr(prefs, "imagen_quality", "1K")
    /\ aspectRatio = GetItemOr(prefs, "imagen_aspect_ratio", "1:1")
    /\ imageCount = ParseIntOr(prefs, "imagen_count", 1)
    /\ promptInput = << >>
    /\ references = << >>
    /\ images = << >>
    /\ currentImage = << >>
    /\ pendingBatches = << >>
    /\ calls = << >>
    /\ store = {}
    /\ storeQ = << >>
    /\ view = EmptyView
    /\ toast = << >>
    /\ idb = ClosedDB
    /\ nRequested = 0
    /\ nUserOps = 0

\* InitLoaded, had init() not caught the rejection of ImagenDB.getAllImages():
\* init stops there, nothing is rendered and no listener is installed
InitLoadedPropagating(ok) ==
    /\ phase = "loading"
    /\ images' = IF ok THEN getAllImages(store) ELSE << >>
    /\ view' = IF ok THEN renderGallery(images', pendingBatches, calls) ELSE view
    /\ phase' = IF ok /\ ~RenderThrows(images') THEN "ready" ELSE "failed"
    /\ toast' = << >>
    /\ UNCHANGED <<idb, now, settings, pendingBatches, calls, store, storeQ,
                   nRequested, nUserOps>>

\* init() resumes after "await ImagenDB.getAllImages()": ok is FALSE when it rejected
InitLoaded(ok) ==
    /\ phase = "loading"
    /\ images' = IF ok THEN getAllImages(store) ELSE << >>
    /\ view' = renderGallery(images', pendingBatches, calls)
    /\ phase' = IF RenderThrows(images') THEN "failed" ELSE "ready"
    /\ toast' = << >>
    /\ UNCHANGED <<idb, now, settings, pendingBatches, calls, store, storeQ,
                   nRequested, nUserOps>>

\* the user reloads the page: the script starts again, the store and
\* localStorage stay, operations not yet completed are dropped
Reload ==
    /\ ~MicrotaskPending
    /\ UserOp
    /\ phase' = "loading"
    /\ StateFromPrefs
    /\ promptInput' = << >>
    /\ references' = << >>
    /\ images' = << >>
    /\ currentImage' = << >>
    /\ pendingBatches' = << >>
    /\ calls' = << >>
    /\ storeQ' = << >>
    /\ view' = EmptyView
    /\ toast' = << >>
    /\ idb' = ClosedDB
    /\ UNCHANGED <<now, store, prefs, nRequested>>

\* time passes
Tick ==
    /\ now < MaxTime
    /\ now' = now + 1
    /\ UNCHANGED <<idb, phase, settings, gallery, toast, nUserOps>>

----------------------------------------------------------------------------
(* generateImages *)

\* the synchronous part of generateImages, up to "await Promise.allSettled":
\* validation, the captured parameters, the batch, and one request per unit
\* (generateSingleImage runs up to its fetch inside the launching loop)
GenerateImages ==
    /\ Idle
    /\ LET prompt == Trim(promptInput) IN
       IF prompt = << >> THEN
            /\ toast' = <<Toast("warning", "Please enter a prompt", 0)>>
            /\ UNCHANGED <<gallery, settings>>
       ELSE IF apiKey = "" THEN
            /\ toast' = <<Toast("error", "Please enter your OpenRouter API key", 0)>>
            /\ UNCHANGED <<gallery, settings>>
       ELSE
            /\ nRequested + imageCount <= MaxRequested
            /\ \E rnd \in 0..(RandomLevels - 1) :
                LET modelConfig == MODEL_CONFIGS[selectedModel]
                    batch == [id |-> NewId(now, 0, rnd),
                              prompt |-> prompt,
                              model |-> selectedModel,
                              modelName |-> modelConfig.name,
                              count |-> imageCount,
                              completed |-> 0,
                              failed |-> 0]
                    request == RequestBody(prompt, modelConfig, selectedModel,
                                           references, imageQuality, aspectRatio,
                                           apiKey)
                    closure == [atCall |-> [prompt |-> Trim(promptInput),
                                            model |-> selectedModel,
                                            size |-> imageSize,
                                            quality |-> imageQuality,
                                            aspectRatio |-> aspectRatio,
                                            references |-> references,
                                            apiKey |-> apiKey],
                                batch |-> batch,
                                prompt |-> prompt,
                                modelConfig |-> modelConfig,
                                currentReferences |-> references,
                                currentModel |-> selectedModel,
                                currentSize |-> imageSize,
                                currentQuality |-> imageQuality,
                                currentAspectRatio |-> aspectRatio,
                                units |-> << >>,
                                inserted |-> << >>,
                                notice |-> << >>,
                                phase |-> "raised"]
                    launched == [closure EXCEPT
                                    !.units = [i \in 1..imageCount |->
                                                [status |-> "inflight",
                                                 request |-> request,
                                                 fresh |-> TRUE,
                                                 outcome |-> "none"]],
                                    !.phase = "running"]
                    pend == Append(pendingBatches, Len(calls) + 1)
                IN  /\ pendingBatches' = pend
                    /\ IF RenderThrows(images)
                       THEN \* renderGallery() at "Show loading placeholders" raises
                            /\ calls' = Append(calls, closure)
                            /\ toast' = << >>
                       ELSE /\ calls' = Append(calls, launched)
                            /\ toast' = <<Toast("success", "Queued", imageCount)>>
                    /\ view' = renderGallery(images, pend, calls')
            /\ nRequested' = nRequested + imageCount
            /\ UNCHANGED <<images, store, storeQ, settings>>
    /\ UNCHANGED <<idb, now, phase, nUserOps>>

\* batchIndex of findIndex(b => b.id === batchId): the first position, or 0
RECURSIVE FindIndex(_, _, _, _)
FindIndex(pend, cs, batchId, p) ==
    IF p > Len(pend) THEN 0
    ELSE IF cs[pend[p]].batch.id = batchId THEN p
    ELSE FindIndex(pend, cs, batchId, p + 1)

\* UnitFailed, had the units been awaited with Promise.all semantics: the first
\* failure settles every sibling still in flight as failed
UnitFailedAborting(c, i) ==
    /\ Idle
    /\ c \in DOMAIN calls
    /\ i \in DOMAIN calls[c].units
    /\ calls[c].units[i].status = "inflight"
    /\ LET inflight == {k \in DOMAIN calls[c].units :
                            calls[c].units[k].status = "inflight"}
       IN  calls' = [calls EXCEPT
                        ![c].batch.failed = @ + Cardinality(inflight),
                        ![c].units = [k \in DOMAIN @ |->
                                        IF k \in inflight
                                        THEN [@[k] EXCEPT !.status = "settled",
                                                          !.outcome = "failed"]
                                        ELSE @[k]]]
    /\ view' = renderGallery(images, pendingBatches, calls')
    /\ toast' = << >>
    /\ UNCHANGED <<idb, now, phase, settings, images, pendingBatches, store, storeQ,
                   nRequested, nUserOps>>

\* UnitFailed, had the handler of the last unit to settle removed the batch from
\* state.pendingBatches itself
UnitFailedRemoving(c, i) ==
    /\ Idle
    /\ c \in DOMAIN calls
    /\ i \in DOMAIN calls[c].units
    /\ calls[c].units[i].status = "inflight"
    /\ calls' = [calls EXCEPT ![c].batch.failed = @ + 1,
                              ![c].units[i].status = "settled",
                              ![c].units[i].outcome = "failed"]
    /\ pendingBatches' =
          IF calls'[c].batch.completed + calls'[c].batch.failed >= calls'[c].batch.count
          THEN Splice(pendingBatches, FindIndex(pendingBatches, calls, calls[c].batch.id, 1))
          ELSE pendingBatches
    /\ view' = renderGallery(images, pendingBatches', calls')
    /\ toast' = << >>
    /\ UNCHANGED <<idb, now, phase, settings, images, store, storeQ, nRequested, nUserOps>>

\* generateAndDisplay(index) resumes with a rejection of generateSingleImage:
\* fetch rejected, a non-2xx status, no message, or no image in the response
UnitFailed(c, i) ==
    /\ Idle
    /\ c \in DOMAIN calls
    /\ i \in DOMAIN calls[c].units
    /\ calls[c].units[i].status = "inflight"
    /\ calls' = [calls EXCEPT ![c].batch.failed = @ + 1,
                              ![c].units[i].status = "settled",
                              ![c].units[i].outcome = "failed"]
    /\ view' = renderGallery(images, pendingBatches, calls')
    /\ toast' = << >>
    /\ UNCHANGED <<idb, now, phase, settings, images, pendingBatches, store, storeQ,
                   nRequested, nUserOps>>

\* UnitResolved, had the record been built from the live settings when the unit
\* resolves instead of the values captured by generateImages
UnitResolvedLive(c, i, url, rnd) ==
    /\ Idle
    /\ c \in DOMAIN calls
    /\ i \in DOMAIN calls[c].units
    /\ calls[c].units[i].status = "inflight"
    /\ LET cl == calls[c]
           imageData == [id |-> NewId(now, i - 1, rnd),
                         url |-> url,
                         prompt |-> cl.prompt,
                         model |-> selectedModel,
                         modelName |-> MODEL_CONFIGS[selectedModel].name,
                         size |-> imageSize,
                         quality |-> imageQuality,
                         aspectRatio |-> aspectRatio,
                         references |-> references,
                         createdAt |-> ToISOString(now)]
           counted == [calls EXCEPT ![c].batch.completed = @ + 1,
                                    ![c].units[i].status = "settled",
                                    ![c].units[i].outcome = "completed",
                                    ![c].units[i].fresh =
                                        \A k \in 1..Len(images) :
                                            images[k].id # imageData.id,
                                    ![c].inserted = Append(@, imageData)]
       IN  /\ images' = <<imageData>> \o images
           /\ IF RenderThrows(images')
              THEN /\ calls' = [counted EXCEPT ![c].batch.failed = @ + 1,
                                               ![c].units[i].outcome = "both"]
                   /\ storeQ' = storeQ
              ELSE /\ calls' = counted
                   /\ storeQ' = Append(storeQ, [op |-> "put", arg |-> imageData])
           /\ view' = renderGallery(images', pendingBatches, calls')
    /\ toast' = << >>
    /\ UNCHANGED <<idb, now, phase, settings, pendingBatches, store, nRequested, nUserOps>>

\* UnitResolved, had the record been pushed to the end of state.images
UnitResolvedAppending(c, i, url, rnd) ==
    /\ Idle
    /\ c \in DOMAIN calls
    /\ i \in DOMAIN calls[c].units
    /\ calls[c].units[i].status = "inflight"
    /\ LET cl == calls[c]
           imageData == [id |-> NewId(now, i - 1, rnd),
                         url |-> url,
                         prompt |-> cl.prompt,
                         model |-> cl.currentModel,
                         modelName |-> cl.modelConfig.name,
                         size |-> cl.currentSize,
                         quality |-> cl.currentQuality,
                         aspectRatio |-> cl.currentAspectRatio,
                         references |-> cl.currentReferences,
                         createdAt |-> ToISOString(now)]
           counted == [calls EXCEPT ![c].batch.completed = @ + 1,
                                    ![c].units[i].status = "settled",
                                    ![c].units[i].outcome = "completed",
                                    ![c].units[i].fresh =
                                        \A k \in 1..Len(images) :
                                            images[k].id # imageData.id,
                                    ![c].inserted = Append(@, imageData)]
       IN  /\ images' = Append(images, imageData)
           /\ IF RenderThrows(images')
              THEN \* renderGallery() raises inside the try: the catch block runs,
                   \* and its own renderGallery() raises again
                   /\ calls' = [counted EXCEPT ![c].batch.failed = @ + 1,
                                               ![c].units[i].outcome = "both"]
                   /\ storeQ' = storeQ
              ELSE /\ calls' = counted
                   /\ storeQ' = Append(storeQ, [op |-> "put", arg |-> imageData])
           /\ view' = renderGallery(images', pendingBatches, calls')
    /\ toast' = << >>
    /\ UNCHANGED <<idb, now, phase, settings, pendingBatches, store, nRequested, nUserOps>>

\* generateAndDisplay(index) resumes with the result url of generateSingleImage
\* (unit i of the model is index i - 1 of the code)
UnitResolved(c, i, url, rnd) ==
    /\ Idle
    /\ c \in DOMAIN calls
    /\ i \in DOMAIN calls[c].units
    /\ calls[c].units[i].status = "inflight"
    /\ LET cl == calls[c]
           imageData == [id |-> NewId(now, i - 1, rnd),
                         url |-> url,
                         prompt |-> cl.prompt,
                         model |-> cl.currentModel,
                         modelName |-> cl.modelConfig.name,
                         size |-> cl.currentSize,
                         quality |-> cl.currentQuality,
                         aspectRatio |-> cl.currentAspectRatio,
                         references |-> cl.currentReferences,
                         createdAt |-> ToISOString(now)]
           counted == [calls EXCEPT ![c].batch.completed = @ + 1,
                                    ![c].units[i].status = "settled",
                                    ![c].units[i].outcome = "completed",
                                    ![c].units[i].fresh =
                                        \A k \in 1..Len(images) :
                                            images[k].id # imageData.id,
                                    ![c].inserted = Append(@, imageData)]
       IN  /\ images' = <<imageData>> \o images
           /\ IF RenderThrows(images')
              THEN \* renderGallery() raises inside the try: the catch block runs,
                   \* and its own renderGallery() raises again
                   /\ calls' = [counted EXCEPT ![c].batch.failed = @ + 1,
                                               ![c].units[i].outcome = "both"]
                   /\ storeQ' = storeQ
              ELSE /\ calls' = counted
                   /\ storeQ' = Append(storeQ, [op |-> "put", arg |-> imageData])
           /\ view' = renderGallery(images', pendingBatches, calls')
    /\ toast' = << >>
    /\ UNCHANGED <<idb, now, phase, settings, pendingBatches, store, nRequested, nUserOps>>

\* generateImages resumes after "await Promise.allSettled(promises)"
Finalize(c) ==
    /\ phase = "ready"
    /\ c \in DOMAIN calls
    /\ calls[c].phase = "running"
    /\ AllSettled(calls[c])
    /\ LET batch == calls[c].batch
           batchIndex == FindIndex(pendingBatches, calls, batch.id, 1)
           notice == IF RenderThrows(images) THEN << >>
                     ELSE IF batch.completed > 0
                          THEN <<Toast("success", "image(s) generated!", batch.completed)>>
                          ELSE <<Toast("error", "Failed to generate images", 0)>>
       IN  /\ pendingBatches' = Splice(pendingBatches, batchIndex)
           /\ view' = renderGallery(images, pendingBatches', calls)
           /\ toast' = notice
           /\ calls' = [calls EXCEPT ![c].phase = "done", ![c].notice = notice]
    /\ UNCHANGED <<idb, now, phase, settings, images, store, storeQ, nRequested, nUserOps>>

----------------------------------------------------------------------------
(* Gallery actions *)

\* the delete button of card i (index i - 1 of the code): deleteImage(index)
\* up to its await
DeleteClick(i) ==
    /\ Idle
    /\ UserOp
    /\ i \in 1..Len(view.cards)
    /\ IF i <= Len(images)
       THEN /\ images' = Splice(images, i)
            /\ storeQ' = Append(storeQ, [op |-> "delete", arg |-> images[i].id])
            /\ UNCHANGED <<view, toast>>
       ELSE \* imageToDelete is undefined: imageToDelete.id raises inside the try,
            \* nothing is awaited and the handler runs to its end
            /\ view' = renderGallery(images, pendingBatches, calls)
            /\ toast' = IF RenderThrows(images) THEN << >>
                        ELSE <<Toast("success", "Image deleted", 0)>>
            /\ UNCHANGED <<images, storeQ>>
    /\ UNCHANGED <<idb, now, phase, settings, pendingBatches, calls, store, nRequested>>

\* the clear button, confirmed: the handler up to "await ImagenDB.clearAll()"
ClearClick ==
    /\ Idle
    /\ UserOp
    /\ images' = << >>
    /\ storeQ' = Append(storeQ, [op |-> "clear", arg |-> 0])
    /\ toast' = << >>
    /\ UNCHANGED <<idb, now, phase, settings, pendingBatches, calls, store, view,
                   nRequested>>

\* SaveImageDone, had the .catch of saveImage taken the record out of
\* state.images again
SaveImageDoneRollback(ok) ==
    /\ Idle
    /\ storeQ # << >>
    /\ Head(storeQ).op = "put"
    /\ store' = IF ok THEN StorePut(store, Head(storeQ).arg) ELSE store
    /\ images' = IF ok THEN images
                 ELSE SelectSeq(images, LAMBDA r : r.id # Head(storeQ).arg.id)
    /\ storeQ' = Tail(storeQ)
    /\ toast' = << >>
    /\ UNCHANGED <<idb, now, phase, settings, pendingBatches, calls, view,
                   nRequested, nUserOps>>

\* ImagenDB.saveImage settles; a rejection is logged by the .catch
SaveImageDone(ok) ==
    /\ Idle
    /\ storeQ # << >>
    /\ Head(storeQ).op = "put"
    /\ store' = IF ok THEN StorePut(store, Head(storeQ).arg) ELSE store
    /\ storeQ' = Tail(storeQ)
    /\ toast' = << >>
    /\ UNCHANGED <<idb, now, phase, settings, images, pendingBatches, calls, view,
                   nRequested, nUserOps>>

\* ImagenDB.deleteImage settles and deleteImage resumes after its try/catch
DeleteImageDone(ok) ==
    /\ Idle
    /\ storeQ # << >>
    /\ Head(storeQ).op = "delete"
    /\ store' = IF ok THEN StoreDelete(store, Head(storeQ).arg) ELSE store
    /\ storeQ' = Tail(storeQ)
    /\ view' = renderGallery(images, pendingBatches, calls)
    /\ toast' = IF RenderThrows(images) THEN << >>
                ELSE <<Toast("success", "Image deleted", 0)>>
    /\ UNCHANGED <<idb, now, phase, settings, images, pendingBatches, calls,
                   nRequested, nUserOps>>

\* ImagenDB.clearAll settles and the clear handler resumes after its try/catch
ClearAllDone(ok) ==
    /\ Idle
    /\ storeQ # << >>
    /\ Head(storeQ).op = "clear"
    /\ store' = IF ok THEN {} ELSE store
    /\ storeQ' = Tail(storeQ)
    /\ view' = renderGallery(images, pendingBatches, calls)
    /\ toast' = IF RenderThrows(images) THEN << >>
                ELSE <<Toast("success", "Gallery cleared", 0)>>
    /\ UNCHANGED <<idb, now, phase, settings, images, pendingBatches, calls,
                   nRequested, nUserOps>>

----------------------------------------------------------------------------
(* Settings actions *)

Edit ==
    /\ Idle
    /\ UserOp
    /\ toast' = << >>
    /\ UNCHANGED <<idb, now, phase, gallery>>

\* the save button of the API key field
SaveApiKey(k) ==
    /\ Edit
    /\ apiKey' = k
    /\ prefs' = [prefs EXCEPT !.imagen_api_key = Stored(k)]
    /\ UNCHANGED <<promptInput, selectedModel, imageSize, imageQuality, aspectRatio,
                   imageCount, references, currentImage>>

\* the user types into the prompt field
PromptInput(p) ==
    /\ Edit
    /\ promptInput' = p
    /\ UNCHANGED <<apiKey, selectedModel, imageSize, imageQuality, aspectRatio,
                   imageCount, references, currentImage, prefs>>

\* an option of the model dropdown
SelectModel(m) ==
    /\ Edit
    /\ selectedModel' = m
    /\ prefs' = [prefs EXCEPT !.imagen_model = Stored(m)]
    /\ UNCHANGED <<apiKey, promptInput, imageSize, imageQuality, aspectRatio,
                   imageCount, references, currentImage>>

\* a size toggle button
ToggleSize(btn) ==
    /\ Edit
    /\ imageSize' = btn.size
    /\ imageQuality' = btn.quality
    /\ prefs' = [prefs EXCEPT !.imagen_size = Stored(btn.size),
                              !.imagen_quality = Stored(btn.quality)]
    /\ UNCHANGED <<apiKey, promptInput, selectedModel, aspectRatio, imageCount,
                   references, currentImage>>

\* an aspect ratio button
ToggleAspect(ratio) ==
    /\ Edit
    /\ aspectRatio' = ratio
    /\ prefs' = [prefs EXCEPT !.imagen_aspect_ratio = Stored(ratio)]
    /\ UNCHANGED <<apiKey, promptInput, selectedModel, imageSize, imageQuality,
                   imageCount, references, currentImage>>

DecreaseCount ==
    /\ Edit
    /\ IF imageCount > 1
       THEN /\ imageCount' = imageCount - 1
            /\ prefs' = [prefs EXCEPT !.imagen_count = Stored(imageCount')]
       ELSE UNCHANGED <<imageCount, prefs>>
    /\ UNCHANGED <<apiKey, promptInput, selectedModel, imageSize, imageQuality,
                   aspectRatio, references, currentImage>>

IncreaseCount ==
    /\ Edit
    /\ IF imageCount < CountLimit
       THEN /\ imageCount' = imageCount + 1
            /\ prefs' = [prefs EXCEPT !.imagen_count = Stored(imageCount')]
       ELSE UNCHANGED <<imageCount, prefs>>
    /\ UNCHANGED <<apiKey, promptInput, selectedModel, imageSize, imageQuality,
                   aspectRatio, references, currentImage>>

\* CountChange, had the value read from the field not been clamped
CountChangeUnclamped(text) ==
    /\ Edit
    /\ imageCount' = IF ParseInt(text) = << >> THEN 1 ELSE ParseInt(text)[1]
    /\ prefs' = [prefs EXCEPT !.imagen_count = Stored(imageCount')]
    /\ UNCHANGED <<apiKey, promptInput, selectedModel, imageSize, imageQuality,
                   aspectRatio, references, currentImage>>

\* the change event of the image count field, text being e.target.value
CountChange(text) ==
    /\ Edit
    /\ LET parsed == ParseInt(text)
           val == IF parsed = << >> THEN 1
                  ELSE IF parsed[1] < 1 THEN 1
                  ELSE IF parsed[1] > CountLimit THEN CountLimit
                  ELSE parsed[1]
       IN  /\ imageCount' = val
           /\ prefs' = [prefs EXCEPT !.imagen_count = Stored(val)]
    /\ UNCHANGED <<apiKey, promptInput, selectedModel, imageSize, imageQuality,
                   aspectRatio, references, currentImage>>

\* a FileReader of handleReferenceUpload, handlePaste or handleDrop has loaded
\* (the load is an event of its own, one per file: whether it counts as a user
\* action of the bounded run is left to the specification)
ReferenceLoaded(url) ==
    /\ Idle
    /\ Len(references) < MaxRefs
    /\ references' = Append(references, url)
    /\ toast' = << >>
    /\ UNCHANGED <<idb, now, phase, gallery>>
    /\ UNCHANGED <<apiKey, promptInput, selectedModel, imageSize, imageQuality,
                   aspectRatio, imageCount, currentImage, prefs>>

\* the remove button of reference slot k (index k - 1 of the code)
removeReference(k) ==
    /\ Edit
    /\ k \in 1..Len(references)
    /\ references' = Splice(references, k)
    /\ UNCHANGED <<apiKey, promptInput, selectedModel, imageSize, imageQuality,
                   aspectRatio, imageCount, currentImage, prefs>>

clearAllReferences ==
    /\ Edit
    /\ references' = << >>
    /\ UNCHANGED <<apiKey, promptInput, selectedModel, imageSize, imageQuality,
                   aspectRatio, imageCount, currentImage, prefs>>

\* a click on card i: openModal(image) with the record the card was built from
OpenModal(i) ==
    /\ Edit
    /\ i \in 1..Len(view.cards)
    /\ currentImage' = <<view.cards[i]>>
    /\ UNCHANGED <<apiKey, promptInput, selectedModel, imageSize, imageQuality,
                   aspectRatio, imageCount, references, prefs>>

\* the "use as reference" button of the modal (the modal opens on a click on
\* a card, so the clicks on cards bound its uses)
useImageAsReference ==
    /\ Idle
    /\ currentImage # << >>
    /\ Len(references) < MaxRefs
    /\ references' = Append(references, currentImage[1].url)
    /\ currentImage' = << >>
    /\ toast' = <<Toast("success", "Image added as reference", 0)>>
    /\ UNCHANGED <<idb, now, phase, gallery, nUserOps>>
    /\ UNCHANGED <<apiKey, promptInput, selectedModel, imageSize, imageQuality,
                   aspectRatio, imageCount, prefs>>

\* recreateImage, had the references been restored only when the record has
\* some
recreateImageKeepingReferences ==
    /\ Idle
    /\ currentImage # << >>
    /\ LET image == currentImage[1]
           matching == {b \in SizeButtons : b.quality = image.quality}
       IN  /\ promptInput' = image.prompt
           /\ selectedModel' = image.model
           /\ prefs' = [prefs EXCEPT !.imagen_model = Stored(image.model)]
           /\ IF matching # {}
              THEN LET btn == CHOOSE b \in matching : TRUE
                   IN  imageSize' = btn.size /\ imageQuality' = btn.quality
              ELSE UNCHANGED <<imageSize, imageQuality>>
           /\ IF image.aspectRatio \in AspectButtons
              THEN aspectRatio' = image.aspectRatio
              ELSE UNCHANGED aspectRatio
           /\ references' = IF Len(image.references) > 0 THEN image.references
                          ELSE references
    /\ currentImage' = << >>
    /\ toast' = <<Toast("success", "Settings restored", 0)>>
    /\ UNCHANGED <<idb, now, phase, gallery, apiKey, imageCount, nUserOps>>

\* the recreate button of the modal (the modal opens on a click on a card, so
\* the clicks on cards bound the recreations)
recreateImage ==
    /\ Idle
    /\ currentImage # << >>
    /\ LET image == currentImage[1]
           matching == {b \in SizeButtons : b.quality = image.quality}
       IN  /\ promptInput' = image.prompt
           /\ selectedModel' = image.model
           /\ prefs' = [prefs EXCEPT !.imagen_model = Stored(image.model)]
           /\ IF matching # {}
              THEN LET btn == CHOOSE b \in matching : TRUE
                   IN  imageSize' = btn.size /\ imageQuality' = btn.quality
              ELSE UNCHANGED <<imageSize, imageQuality>>
           /\ IF image.aspectRatio \in AspectButtons
              THEN aspectRatio' = image.aspectRatio
              ELSE UNCHANGED aspectRatio
           /\ references' = image.references
    /\ currentImage' = << >>
    /\ toast' = <<Toast("success", "Settings restored", 0)>>
    /\ UNCHANGED <<idb, now, phase, gallery, apiKey, imageCount, nUserOps>>

----------------------------------------------------------------------------
(* The URLs written into the page *)

\* the src of the <img> of a gallery card
CardSrc(image) == sanitizeImageUrl(image.url)

\* elements.modalImage.src, set by openModal
ModalSrc(image) == sanitizeImageUrl(image.url)

\* the href of the link of downloadImageByIndex
DownloadByIndexHref(image) == sanitizeImageUrl(image.url)

\* the href of the link of downloadCurrentImage
DownloadCurrentHref(image) == image.url

\* the src of the <img> of a reference slot
ReferenceSlotSrc(ref) == ref

----------------------------------------------------------------------------
(* ImagenDB: the connection *)

\* the page but for ImagenDB
page == <<now, phase, settings, gallery, toast, nUserOps>>

\* the stages of an operation that has resolved or rejected
SettledStages == {"done", "failed"}

\* A method of ImagenDB (getAllImages, saveImage, deleteImage or clearAll) is
\* called and runs up to its first suspension: ensureOpen calls open(), which
\* calls indexedDB.open, when db is null, and otherwise the method goes on to
\* its transaction on db.  The first operation is the getAllImages of init(),
\* which installs the listeners that call the others once it has settled.
StoreOpCalled ==
    /\ Len(idb.ops) < MaxStoreOps
    /\ idb.ops # << >> => idb.ops[1].stage \in SettledStages
    /\ idb' = [idb EXCEPT !.ops =
                  Append(@, IF idb.db = 0
                            THEN [stage |-> "opening", conn |-> 0]
                            ELSE [stage |-> "request", conn |-> idb.db])]
    /\ UNCHANGED page

\* request.onsuccess of the open() of operation o: db is set to the connection
\* of this request, and the operation goes on to its transaction on db
OpenSucceeded(o) ==
    /\ o \in DOMAIN idb.ops
    /\ idb.ops[o].stage = "opening"
    /\ idb' = [db |-> idb.opened + 1,
               opened |-> idb.opened + 1,
               ops |-> [idb.ops EXCEPT ![o] = [stage |-> "request",
                                               conn |-> idb.opened + 1]]]
    /\ UNCHANGED page

\* request.onerror of the open() of operation o: the operation rejects
OpenFailed(o) ==
    /\ o \in DOMAIN idb.ops
    /\ idb.ops[o].stage = "opening"
    /\ idb' = [idb EXCEPT !.ops[o].stage = "failed"]
    /\ UNCHANGED page

\* the request of the transaction of operation o succeeds or fails
RequestSettled(o, ok) ==
    /\ o \in DOMAIN idb.ops
    /\ idb.ops[o].stage = "request"
    /\ idb' = [idb EXCEPT !.ops[o].stage = IF ok THEN "done" ELSE "failed"]
    /\ UNCHANGED page

----------------------------------------------------------------------------
(* The specifications *)

\* The batch tracker, the gallery and the store: every handler that reads or
\* writes state.images, state.pendingBatches or the store, with the two inputs a
\* submission needs.
Next ==
    \/ \E ok \in BOOLEAN : InitLoaded(ok)
    \/ Reload
    \/ Tick
    \/ GenerateImages
    \/ \E c \in DOMAIN calls : \E i \in DOMAIN calls[c].units : UnitFailed(c, i)
    \/ \E c \in DOMAIN calls : \E i \in DOMAIN calls[c].units :
         \E url \in ResultUrls : \E rnd \in 0..(RandomLevels - 1) :
            UnitResolved(c, i, url, rnd)
    \/ \E c \in DOMAIN calls : Finalize(c)
    \/ \E i \in 1..Len(view.cards) : DeleteClick(i)
    \/ ClearClick
    \/ \E ok \in BOOLEAN : SaveImageDone(ok)
    \/ \E ok \in BOOLEAN : DeleteImageDone(ok)
    \/ \E ok \in BOOLEAN : ClearAllDone(ok)
    \/ \E k \in ApiKeys : SaveApiKey(k)
    \/ \E p \in PromptTexts : PromptInput(p)

Spec == Init /\ [][Next]_vars

\* The settings and a submission: the controls of the sidebar and of the modal
\* with generateImages and its units.  The controls write no variable of the
\* gallery, and the gallery handlers left out here read no setting.
SettingsNext ==
    \/ \E ok \in BOOLEAN : InitLoaded(ok)
    \/ GenerateImages
    \/ \E c \in DOMAIN calls : \E i \in DOMAIN calls[c].units : UnitFailed(c, i)
    \/ \E c \in DOMAIN calls : \E i \in DOMAIN calls[c].units :
         \E url \in ResultUrls : \E rnd \in 0..(RandomLevels - 1) :
            UnitResolved(c, i, url, rnd)
    \/ \E c \in DOMAIN calls : Finalize(c)
    \/ \E ok \in BOOLEAN : SaveImageDone(ok)
    \/ \E k \in ApiKeys : SaveApiKey(k)
    \/ \E p \in PromptTexts : PromptInput(p)
    \/ \E m \in Models : SelectModel(m)
    \/ \E btn \in SizeButtons : ToggleSize(btn)
    \/ \E ratio \in AspectButtons : ToggleAspect(ratio)
    \/ DecreaseCount
    \/ imageCount < MaxRequested /\ IncreaseCount
    \/ /\ Len(references) < MaxSettingsRefs
       /\ UserOp
       /\ \E url \in UploadUrls : ReferenceLoaded(url)
    \/ clearAllReferences
    \/ \E i \in 1..Len(view.cards) : OpenModal(i)
    \/ recreateImage

SettingsSpec == Init /\ [][SettingsNext]_vars

\* The image count: its three controls, the page reload that restores it from
\* localStorage, and the submissions that read it.
CountNext ==
    \/ InitLoaded(TRUE)
    \/ Reload
    \/ SaveApiKey("sk-or-1")
    \/ PromptInput(<<"a">>)
    \/ DecreaseCount
    \/ IncreaseCount
    \/ \E text \in CountInputs : CountChange(text)
    \/ GenerateImages

CountSpec == Init /\ [][CountNext]_vars

\* The reference images and the requests that carry them: the loads of the
\* files picked, pasted or dropped (a drop of several files is one user action,
\* its loads are not counted), the model dropdown and the submissions.
ReferenceNext ==
    \/ InitLoaded(TRUE)
    \/ SaveApiKey("sk-or-1")
    \/ PromptInput(<<"a">>)
    \/ \E m \in Models : SelectModel(m)
    \/ \E url \in UploadUrls : ReferenceLoaded(url) /\ UNCHANGED nUserOps
    \/ \E k \in 1..Len(references) : removeReference(k)
    \/ clearAllReferences
    \/ GenerateImages

ReferenceSpec == Init /\ [][ReferenceNext]_vars

\* The sizing controls and the submissions, over every model of the capability
\* table.
SizingNext ==
    \/ InitLoaded(TRUE)
    \/ SaveApiKey("sk-or-1")
    \/ PromptInput(<<"a">>)
    \/ \E m \in DOMAIN MODEL_CONFIGS : SelectModel(m)
    \/ \E btn \in SizeButtons : ToggleSize(btn)
    \/ \E ratio \in AspectButtons : ToggleAspect(ratio)
    \/ GenerateImages

SizingSpec == Init /\ [][SizingNext]_vars

\* ImagenDB alone: the operations called on it, and their opens and requests.
OpenNext ==
    \/ StoreOpCalled
    \/ \E o \in DOMAIN idb.ops : OpenSucceeded(o)
    \/ \E o \in DOMAIN idb.ops : OpenFailed(o)
    \/ \E o \in DOMAIN idb.ops : \E ok \in BOOLEAN : RequestSettled(o, ok)

OpenSpec == Init /\ [][OpenNext]_vars

\* the image urls of the responses of the page specification: one that
\* sanitizeImageUrl lets through and one that it blocks
PageUrls == {DataUrl, HttpUrl}

\* The urls on their way to the page: the units that bring them, the modal and
\* its buttons, and the reference slots.
PageNext ==
    \/ InitLoaded(TRUE)
    \/ SaveApiKey("sk-or-1")
    \/ PromptInput(<<"a">>)
    \/ GenerateImages
    \/ \E c \in DOMAIN calls : \E i \in DOMAIN calls[c].units :
         \E url \in PageUrls : \E rnd \in 0..(RandomLevels - 1) :
            UnitResolved(c, i, url, rnd)
    \/ \E c \in DOMAIN calls : Finalize(c)
    \/ \E i \in 1..Len(view.cards) : OpenModal(i)
    \/ useImageAsReference
    \/ recreateImage
    \/ \E url \in UploadUrls : ReferenceLoaded(url) /\ UNCHANGED nUserOps

PageSpec == Init /\ [][PageNext]_vars

\* a request in flight settles: fetch resolves or rejects
UnitSettles ==
    \E c \in DOMAIN calls : \E i \in DOMAIN calls[c].units :
        \/ UnitFailed(c, i)
        \/ \E url \in ResultUrls : \E rnd \in 0..(RandomLevels - 1) :
              UnitResolved(c, i, url, rnd)

\* The gallery specification with progress: the load of init() completes, every
\* request in flight settles, and a continuation that is ready to run runs (the
\* event loop runs a queued microtask before anything else).
LiveSpec ==
    /\ Spec
    /\ WF_vars(\E ok \in BOOLEAN : InitLoaded(ok))
    /\ WF_vars(UnitSettles)
    /\ WF_vars(\E c \in DOMAIN calls : Finalize(c))

\* The gallery specification with a store that never fails and a page that
\* is not reloaded: every store operation issued completes successfully.
ReliableNext ==
    \/ InitLoaded(TRUE)
    \/ Tick
    \/ GenerateImages
    \/ \E c \in DOMAIN calls : \E i \in DOMAIN calls[c].units : UnitFailed(c, i)
    \/ \E c \in DOMAIN calls : \E i \in DOMAIN calls[c].units :
         \E url \in ResultUrls : \E rnd \in 0..(RandomLevels - 1) :
            UnitResolved(c, i, url, rnd)
    \/ \E c \in DOMAIN calls : Finalize(c)
    \/ \E i \in 1..Len(view.cards) : DeleteClick(i)
    \/ ClearClick
    \/ SaveImageDone(TRUE)
    \/ DeleteImageDone(TRUE)
    \/ ClearAllDone(TRUE)
    \/ \E k \in ApiKeys : SaveApiKey(k)
    \/ \E p \in PromptTexts : PromptInput(p)

ReliableSpec == Init /\ [][ReliableNext]_vars

\* fetch of unit i settles with a 2xx response whose first choice carries the
\* message: generateSingleImage returns the image it extracts, or throws
Respond(c, i, message, rnd) ==
    IF ExtractImage(message) = << >>
    THEN UnitFailed(c, i)
    ELSE UnitResolved(c, i, ExtractImage(message)[1], rnd)

\* what fetch resolves with: ok is response.ok, message is <<m>> for the
\* data.choices?.[0]?.message of the body and << >> when the body has none
Response(ok, message) == [ok |-> ok, message |-> message]

\* the responses without a usable message: a non-2xx status (whatever its
\* body carries), and a 2xx body without choices[0].message
ErrorResponses ==
    {Response(FALSE, << >>),
     Response(FALSE, <<[images |-> <<Entry("", DataUrl, "", "")>>,
                        content |-> [isArray |-> FALSE, text |-> "", parts |-> << >>]]>>),
     Response(TRUE, << >>)}

\* generateSingleImage after its fetch: <<url>> for the value it returns, << >>
\* when it throws ('API error', 'No response from model', 'No image in response')
generateSingleImage(response) ==
    IF ~response.ok THEN << >>
    ELSE IF response.message = << >> THEN << >>
    ELSE ExtractImage(response.message[1])

\* fetch of unit i settles with the response
ResponseArrives(c, i, response, rnd) ==
    IF generateSingleImage(response) = << >>
    THEN UnitFailed(c, i)
    ELSE UnitResolved(c, i, generateSingleImage(response)[1], rnd)

\* Submissions and their responses, in every shape considered.
ExtractNext ==
    \/ InitLoaded(TRUE)
    \/ SaveApiKey("sk-or-1")
    \/ PromptInput(<<"a">>)
    \/ GenerateImages
    \/ \E c \in DOMAIN calls : \E i \in DOMAIN calls[c].units :
         \E message \in Messages : \E rnd \in 0..(RandomLevels - 1) :
            Respond(c, i, message, rnd)
    \/ \E c \in DOMAIN calls : \E i \in DOMAIN calls[c].units :
         \E response \in ErrorResponses : \E rnd \in 0..(RandomLevels - 1) :
            ResponseArrives(c, i, response, rnd)
    \/ \E c \in DOMAIN calls : Finalize(c)

ExtractSpec == Init /\ [][ExtractNext]_vars

----------------------------------------------------------------------------
(* Claims *)

\* the calls whose batch object is in state.pendingBatches
Active == {pendingBatches[p] : p \in 1..Len(pendingBatches)}

Settled(cl) == cl.batch.completed + cl.batch.failed

\* the units of the call whose request failed
FailedUnits(cl) == {i \in DOMAIN cl.units : cl.units[i].outcome = "failed"}

\* every unit of the call either failed or succeeded, none counted twice
FailedOrSucceeded(cl) ==
    \A i \in DOMAIN cl.units : cl.units[i].outcome \in {"completed", "failed"}

\* C1: for every batch created by generateImages, in every reachable state,
\* batch.completed + batch.failed <= batch.count.
C1_CountersWithinCount ==
    \A c \in DOMAIN calls : Settled(calls[c]) <= calls[c].batch.count

DistinctIds(recs) ==
    \A p, q \in 1..Len(recs) : p # q => recs[p].id # recs[q].id

\* every unit of the call succeeded: it counted as completed and as nothing else
AllResolved(cl) ==
    \A i \in DOMAIN cl.units : cl.units[i].outcome = "completed"

\* C3: when every request of a call of count N has succeeded and the batch has
\* settled, N records were added to state.images, their ids are pairwise
\* distinct and differ from every id already in the gallery, and the batch is
\* no longer in state.pendingBatches.
C3_AllSucceed ==
    \A c \in DOMAIN calls :
        (calls[c].phase = "done" /\ AllResolved(calls[c])) =>
            /\ Len(calls[c].inserted) = calls[c].batch.count
            /\ DistinctIds(calls[c].inserted)
            /\ \A i \in DOMAIN calls[c].units : calls[c].units[i].fresh
            /\ c \notin Active

\* C4: when K of the N units of a batch fail and the others succeed, N - K
\* records are inserted and the completion notification reports N - K
\* successes; it is the all-failed error when K = N.
C4_PartialFailure ==
    \A c \in DOMAIN calls :
        (calls[c].phase = "done" /\ FailedOrSucceeded(calls[c])) =>
            LET n == calls[c].batch.count
                k == Cardinality(FailedUnits(calls[c]))
            IN  /\ Len(calls[c].inserted) = n - k
                /\ calls[c].notice =
                      IF k = n
                      THEN <<Toast("error", "Failed to generate images", 0)>>
                      ELSE <<Toast("success", "image(s) generated!", n - k)>>

\* the positions of record r in a sequence of records
Positions(recs, r) == {k \in 1..Len(recs) : recs[k] = r}

\* C5: a delete requested on the card of a record removes exactly that record
\* from state.images and issues one store delete with its id; a delete that
\* targets no existing record changes neither state.images nor the store.
C5_DeleteExact ==
    [][\A i \in 1..Len(view.cards) :
          DeleteClick(i) =>
             LET shown == view.cards[i] IN
             IF Positions(images, shown) # {}
             THEN /\ \E k \in Positions(images, shown) : images' = Splice(images, k)
                  /\ storeQ' = Append(storeQ, [op |-> "delete", arg |-> shown.id])
             ELSE /\ images' = images
                  /\ storeQ' = storeQ
                  /\ store' = store]_vars

\* the record a unit of the call builds from the parameters in effect when
\* generateImages was called
CarriesSubmitted(cl, r) ==
    /\ r.prompt = cl.atCall.prompt
    /\ r.model = cl.atCall.model
    /\ r.modelName = MODEL_CONFIGS[cl.atCall.model].name
    /\ r.size = cl.atCall.size
    /\ r.quality = cl.atCall.quality
    /\ r.aspectRatio = cl.atCall.aspectRatio
    /\ r.references = cl.atCall.references

\* C6: every request a batch sends and every record it produces carries the
\* prompt, model, model name, size, quality, aspect ratio and references in
\* effect when generateImages was called, whatever the user changes while units
\* of the batch are in flight.
C6_ParametersReadOnce ==
    \A c \in DOMAIN calls :
        /\ \A i \in DOMAIN calls[c].units :
              calls[c].units[i].request =
                 RequestBody(calls[c].atCall.prompt,
                             MODEL_CONFIGS[calls[c].atCall.model],
                             calls[c].atCall.model,
                             calls[c].atCall.references,
                             calls[c].atCall.quality,
                             calls[c].atCall.aspectRatio,
                             calls[c].atCall.apiKey)
        /\ \A k \in 1..Len(calls[c].inserted) :
              CarriesSubmitted(calls[c], calls[c].inserted[k])

\* C6: the last unit of a batch has just produced its record (the continuation
\* of the call has not run yet) and the live model and another live setting
\* differ from the values of the submission
C6_Witness ==
    \E c \in DOMAIN calls :
        /\ calls[c].phase = "running"
        /\ AllSettled(calls[c])
        /\ calls[c].inserted # << >>
        /\ selectedModel # calls[c].atCall.model
        /\ \/ imageQuality # calls[c].atCall.quality
           \/ aspectRatio # calls[c].atCall.aspectRatio
           \/ references # calls[c].atCall.references

\* the records are ordered by createdAt, newest first
NewestFirst(recs) ==
    \A k \in 1..(Len(recs) - 1) :
        DateValue(recs[k].createdAt) >= DateValue(recs[k + 1].createdAt)

\* C7: state.images is sorted by createdAt descending in every reachable state
\* (the clock of the page never runs backwards).
C7_SortedNewestFirst == NewestFirst(images)

\* C7: a gallery loaded from the store that holds records of two instants
C7_Witness ==
    /\ phase = "ready"
    /\ calls = << >>
    /\ Len(images) >= 2
    /\ DateValue(images[1].createdAt) > DateValue(images[Len(images)].createdAt)

\* the set of records of a sequence
Range(recs) == {recs[k] : k \in 1..Len(recs)}

\* every record of state.images is in the store, the store holds no other
\* record, and no store operation is under way
Persisted ==
    /\ storeQ = << >>
    /\ DistinctIds(images)
    /\ Range(images) = store

\* C8, as stated: once the records of state.images are persisted, a reload
\* from the store (ImagenDB.getAllImages) returns the sequence state.images
\* holds.
C8_ReloadEqualsMemory ==
    Persisted => getAllImages(store) = images

\* no two records carry the same createdAt
DistinctCreatedAt(recs) ==
    \A p, q \in 1..Len(recs) : p # q => recs[p].createdAt # recs[q].createdAt

\* C8, amended: once the records of state.images are persisted, a reload from
\* the store returns them newest first, records of the same createdAt in
\* ascending id order; it equals state.images when the createdAt values are
\* pairwise distinct.
C8_ReloadNewestFirst ==
    Persisted =>
        LET loaded == getAllImages(store)
        IN  /\ Range(loaded) = Range(images)
            /\ Len(loaded) = Len(images)
            /\ NewestFirst(loaded)
            /\ \A k \in 1..(Len(loaded) - 1) :
                  loaded[k].createdAt = loaded[k + 1].createdAt =>
                      loaded[k].id < loaded[k + 1].id
            /\ DistinctCreatedAt(images) => loaded = images

\* C8: two records of different instants are in state.images and persisted
C8_Witness ==
    /\ Persisted
    /\ Len(images) >= 2
    /\ DistinctCreatedAt(images)
    /\ getAllImages(store) = images

\* C9: the clear action empties state.images as soon as it runs, and when the
\* store clear has settled, successfully or not, the handler re-renders the
\* gallery and shows its notification.
C9_ClearCompletes ==
    [][/\ ClearClick => images' = << >>
       /\ \A ok \in BOOLEAN :
             ClearAllDone(ok) =>
                /\ view' = [empty |-> Len(images) = 0 /\ Len(pendingBatches) = 0,
                            placeholders |-> view'.placeholders,
                            cards |-> images]
                /\ toast' = <<Toast("success", "Gallery cleared", 0)>>]_vars

\* the units of the call other than unit i are as they were
SiblingsUntouched(c, i) ==
    \A k \in DOMAIN calls[c].units :
        k # i => calls'[c].units[k] = calls[c].units[k]

\* C10: a failing unit changes nothing but the failed counter of its batch:
\* state.images, the store, the active set, the other batches and the sibling
\* units stay as they are, so each sibling runs to its own outcome; and a unit
\* that succeeds is inserted whatever became of its siblings.
C10_FailureIsolated ==
    [][/\ \A c \in DOMAIN calls : \A i \in DOMAIN calls[c].units :
             UnitFailed(c, i) =>
                /\ images' = images
                /\ store' = store
                /\ storeQ' = storeQ
                /\ pendingBatches' = pendingBatches
                /\ calls'[c].batch = [calls[c].batch EXCEPT !.failed = @ + 1]
                /\ calls'[c].inserted = calls[c].inserted
                /\ SiblingsUntouched(c, i)
                /\ \A d \in DOMAIN calls : d # c => calls'[d] = calls[d]
       /\ \A c \in DOMAIN calls : \A i \in DOMAIN calls[c].units :
             \A url \in ResultUrls : \A rnd \in 0..(RandomLevels - 1) :
                UnitResolved(c, i, url, rnd) =>
                   /\ Len(images') = Len(images) + 1
                   /\ images'[1].url = url
                   /\ SiblingsUntouched(c, i)]_vars

\* C10: one unit of a batch has failed and a sibling has succeeded; its record
\* is in state.images
C10_Witness ==
    \E c \in DOMAIN calls : \E i, k \in DOMAIN calls[c].units :
        /\ calls[c].units[i].outcome = "failed"
        /\ calls[c].units[k].outcome = "completed"
        /\ calls[c].batch.failed = 1
        /\ calls[c].batch.completed = 1
        /\ \E p \in 1..Len(images) : images[p] = calls[c].inserted[1]

\* the completion notifications of generateImages
CompletionToasts ==
    {Toast("error", "Failed to generate images", 0)}
        \cup {Toast("success", "image(s) generated!", n) : n \in 1..CountLimit}

\* C11: each batch produces exactly one completion notification, issued by the
\* continuation of its call once all its units have settled and the batch has
\* left state.pendingBatches; the handler of a unit issues no notification.
C11_OneCompletionNotice ==
    [][/\ \A c \in DOMAIN calls :
             Finalize(c) =>
                /\ AllSettled(calls[c])
                /\ c \notin {pendingBatches'[p] : p \in 1..Len(pendingBatches')}
                /\ Len(toast') = 1
                /\ toast'[1] \in CompletionToasts
                /\ calls'[c].notice = toast'
       /\ \A c \in DOMAIN calls :
             (c \in DOMAIN calls' /\ calls'[c].notice # calls[c].notice) => Finalize(c)
       /\ \A c \in DOMAIN calls : \A i \in DOMAIN calls[c].units :
             /\ UnitFailed(c, i) => toast' = << >>
             /\ \A url \in ResultUrls : \A rnd \in 0..(RandomLevels - 1) :
                   UnitResolved(c, i, url, rnd) => toast' = << >>]_vars

\* C12: when every request of a batch settles, the batch is eventually removed
\* from state.pendingBatches: no batch stays in the active set forever.
C12_EventuallyRemoved ==
    \A c \in 1..MaxRequested : (c \in Active) ~> (c \notin Active)

\* the text holds nothing but white space
Blank(text) == \A k \in 1..Len(text) : text[k] = " "

\* C13: generateImages with a prompt that is empty after trimming, or with no
\* API key, creates no batch, sends no request, and leaves
\* state.pendingBatches, state.images and the store unchanged.
C13_BlockedSubmission ==
    [][(GenerateImages /\ (Blank(promptInput) \/ apiKey = "")) =>
          /\ calls' = calls
          /\ pendingBatches' = pendingBatches
          /\ images' = images
          /\ store' = store
          /\ storeQ' = storeQ]_vars

\* C13: a submission with a prompt of white space and an API key has been
\* blocked
C13_Witness ==
    /\ toast = <<Toast("warning", "Please enter a prompt", 0)>>
    /\ promptInput # << >>
    /\ Blank(promptInput)
    /\ apiKey # ""

\* the requests the call has sent
RequestsSent(cl) == Cardinality(DOMAIN cl.units)

\* C14: a batch of N sends exactly N requests, one per unit, and a unit that has
\* settled is never sent again.
C14_OneRequestPerUnit ==
    [][\A c \in DOMAIN calls' :
          /\ RequestsSent(calls'[c]) = calls'[c].batch.count
          /\ (c \in DOMAIN calls /\ calls[c].batch.id = calls'[c].batch.id) =>
                \A i \in DOMAIN calls[c].units :
                   /\ calls'[c].units[i].request = calls[c].units[i].request
                   /\ calls[c].units[i].status = "settled" =>
                         calls'[c].units[i].status = "settled"]_vars

\* C15: for insert, delete and clear alike, the handler that changes
\* state.images re-renders the gallery from the new state at once, without
\* waiting for the store operation it issues.
C15_RenderBeforeStore ==
    [][/\ \A c \in DOMAIN calls : \A i \in DOMAIN calls[c].units :
             \A url \in ResultUrls : \A rnd \in 0..(RandomLevels - 1) :
                UnitResolved(c, i, url, rnd) =>
                   view' = renderGallery(images', pendingBatches', calls')
       /\ \A i \in 1..Len(view.cards) :
             DeleteClick(i) => view' = renderGallery(images', pendingBatches', calls')
       /\ ClearClick => view' = renderGallery(images', pendingBatches', calls')]_vars

\* the ids of a set of records
Ids(recs) == {r.id : r \in recs}

\* no batch is active, no request is in flight, and no store operation is
\* under way
Quiescent ==
    /\ phase = "ready"
    /\ pendingBatches = << >>
    /\ \A c \in DOMAIN calls : AllSettled(calls[c])
    /\ storeQ = << >>

\* C16: once no batch is active and every store operation issued has completed
\* successfully, the ids of the records in the store are the ids of the
\* records in state.images.
C16_StoreMatchesMemory ==
    Quiescent => Ids(store) = Ids(Range(images))

\* C17: a store write that fails does not undo the change made in memory: the
\* record of a failed put stays in state.images, and the record of a failed
\* delete stays out of it.
C17_NoRollback ==
    [][/\ SaveImageDone(FALSE) => images' = images
       /\ DeleteImageDone(FALSE) =>
             /\ images' = images
             /\ Head(storeQ).arg \in Ids(store) => Head(storeQ).arg \in Ids(store')]_vars

\* C17: the put of a record has failed: no store operation is under way, the
\* record is in state.images and the store holds no record of its id
C17_Witness ==
    /\ phase = "ready"
    /\ storeQ = << >>
    /\ \E k \in 1..Len(images) :
          /\ ~SanitizeThrows(images[k].url)
          /\ images[k].id \notin Ids(store)

\* C18: when the initial load from the store fails, init() goes on with
\* state.images empty: the gallery is rendered and the listeners are installed.
C18_LoadFailsSoft ==
    [][InitLoaded(FALSE) =>
          /\ images' = << >>
          /\ view' = renderGallery(<< >>, pendingBatches, calls)
          /\ phase' = "ready"]_vars

\* C18: the page is ready with an empty gallery although the store holds
\* records
C18_Witness ==
    /\ phase = "ready"
    /\ calls = << >>
    /\ storeQ = << >>
    /\ images = << >>
    /\ view.empty
    /\ store # {}

\* C19: recreate sets the current input configuration to the values of the
\* record in the modal: the prompt, the model, the quality with its size, the
\* aspect ratio and the references, whatever was in effect before.
C19_RecreateRestores ==
    [][recreateImage =>
          /\ promptInput' = currentImage[1].prompt
          /\ selectedModel' = currentImage[1].model
          /\ imageQuality' = currentImage[1].quality
          /\ imageSize' = currentImage[1].size
          /\ aspectRatio' = currentImage[1].aspectRatio
          /\ references' = currentImage[1].references]_vars

\* C19: recreate has restored the values of a record without references, after
\* the user had chosen another quality than the record's
C19_Witness ==
    /\ toast = <<Toast("success", "Settings restored", 0)>>
    /\ prefs.imagen_quality # << >>
    /\ prefs.imagen_quality # Stored(imageQuality)
    /\ \E k \in 1..Len(images) :
          /\ promptInput = images[k].prompt
          /\ selectedModel = images[k].model
          /\ imageQuality = images[k].quality
          /\ imageSize = images[k].size
          /\ aspectRatio = images[k].aspectRatio
          /\ images[k].references = << >>
          /\ references = << >>

\* the payloads that carry no media type
BarePayloads == {PngPayload, JpegPayload}

\* a payload as the response carries it, a bare one with the default prefix
WithDefaultType(payload) ==
    IF payload \in BarePayloads THEN DataUri("image/png", payload) ELSE payload

\* the first entry of an images list is one of the recognised forms
Recognisable(entry) ==
    entry.image_url # "" \/ entry.str # "" \/ entry.url # "" \/ entry.b64_json # ""

EntryPayload(entry) ==
    IF entry.image_url # "" THEN entry.image_url
    ELSE IF entry.str # "" THEN WithDefaultType(entry.str)
    ELSE IF entry.url # "" THEN entry.url
    ELSE WithDefaultType(entry.b64_json)

ImageBearing(part) ==
    \/ part.type = "image_url" /\ part.image_url # ""
    \/ part.data # ""
    \/ part.type = "image" /\ part.image # ""

PartPayload(part) ==
    IF part.type = "image_url" /\ part.image_url # "" THEN part.image_url
    ELSE IF part.data # ""
         THEN "data:" \o (IF part.mimeType = "" THEN "image/png" ELSE part.mimeType)
                 \o ";base64," \o part.data
    ELSE WithDefaultType(part.image)

\* a string content that is itself an embedded image
EmbeddedImage(content) ==
    /\ ~content.isArray
    /\ \E mimeType \in {"image/png", "image/jpeg", "image/webp"} :
          \E payload \in BarePayloads : content.text = DataUri(mimeType, payload)

\* the result the priority of the three shapes gives for a message
ByPriority(message) ==
    LET bearing == IF message.content.isArray
                   THEN {k \in 1..Len(message.content.parts) :
                            ImageBearing(message.content.parts[k])}
                   ELSE {}
    IN  IF Len(message.images) > 0 /\ Recognisable(message.images[1])
        THEN <<EntryPayload(message.images[1])>>
        ELSE IF bearing # {}
        THEN <<PartPayload(message.content.parts[
                    CHOOSE k \in bearing : \A j \in bearing : k <= j])>>
        ELSE IF EmbeddedImage(message.content)
        THEN <<message.content.text>>
        ELSE << >>

\* C20: the image of a response comes from the first entry of the images list
\* when that entry is recognisable, otherwise from the first image-bearing part
\* of a content array, otherwise from a string content that is an embedded
\* image; the payload returned is the one carried, a bare payload with the
\* image/png data-URI prefix.  Every record of the gallery holds such a result.
C20_ExtractionPriority ==
    /\ \A message \in Messages : ExtractImage(message) = ByPriority(message)
    /\ \A k \in 1..Len(images) :
          \E message \in Messages : ByPriority(message) = <<images[k].url>>

\* C20: the gallery holds an image that came from a string content (the
\* response had no recognisable images entry), one that came from a content
\* part with its own media type, or both
C20_Witness ==
    /\ \E k \in 1..Len(images) : images[k].url = DataUri("image/webp", PngPayload)
    /\ \E k \in 1..Len(images) : images[k].url = DataUri("image/jpeg", JpegPayload)

\* the responses considered: the error responses, and a 2xx response for each
\* message
Responses == ErrorResponses \cup {Response(TRUE, <<m>>) : m \in Messages}

\* the response matches none of the recognised image shapes
NoImageShape(response) ==
    \/ ~response.ok
    \/ response.message = << >>
    \/ LET message == response.message[1] IN
        /\ ~(Len(message.images) > 0 /\ Recognisable(message.images[1]))
        /\ ~(message.content.isArray /\
                \E k \in 1..Len(message.content.parts) :
                    ImageBearing(message.content.parts[k]))
        /\ ~EmbeddedImage(message.content)

\* the unit i of call c has failed in this step: no record, one more failure
FailsUnit(c, i) ==
    /\ images' = images
    /\ storeQ' = storeQ
    /\ calls'[c].inserted = calls[c].inserted
    /\ calls'[c].batch.failed = calls[c].batch.failed + 1
    /\ calls'[c].batch.completed = calls[c].batch.completed
    /\ calls'[c].units[i].outcome = "failed"
    /\ \A d \in DOMAIN calls : d # c => calls'[d] = calls[d]

\* C21: a response that matches none of the recognised image shapes (a non-2xx
\* status and a body without a message included) makes generateSingleImage
\* raise; the unit creates no record and its batch counts one more failure.
C21_UnrecognisedFails ==
    /\ [](\A response \in Responses :
            NoImageShape(response) => generateSingleImage(response) = << >>)
    /\ [][\A c \in DOMAIN calls : \A i \in DOMAIN calls[c].units :
            \A rnd \in 0..(RandomLevels - 1) :
               /\ \A response \in ErrorResponses :
                     ResponseArrives(c, i, response, rnd) => FailsUnit(c, i)
               /\ \A message \in Messages :
                     (NoImageShape(Response(TRUE, <<message>>))
                        /\ Respond(c, i, message, rnd)) => FailsUnit(c, i)]_vars

\* C21: a batch of two has counted a failure for a response without a
\* recognisable image and a success for the other unit, whose record is the
\* only one of the gallery
C21_Witness ==
    \E c \in DOMAIN calls :
        /\ calls[c].batch.count = 2
        /\ calls[c].batch.failed = 1
        /\ calls[c].batch.completed = 1
        /\ \E i, j \in DOMAIN calls[c].units :
              /\ calls[c].units[i].outcome = "failed"
              /\ calls[c].units[j].outcome = "completed"
        /\ Len(calls[c].inserted) = 1
        /\ Len(images) = 1

\* C22: state.imageCount stays within 1..8 after any sequence of decrease,
\* increase and direct-input changes and across a reload that restores it from
\* localStorage, the value kept in localStorage is within 1..8 too, and no
\* batch is created with a count below 1 or above 8.
C22_CountInRange ==
    /\ imageCount \in 1..CountLimit
    /\ prefs.imagen_count # << >> => prefs.imagen_count[1] \in 1..CountLimit
    /\ \A c \in DOMAIN calls : calls[c].batch.count \in 1..CountLimit

\* C22: the page is loading again after at least two changes of the count,
\* and the count it restored from localStorage is the upper limit
C22_Witness ==
    /\ phase = "loading"
    /\ nUserOps >= 3
    /\ imageCount = CountLimit
    /\ prefs.imagen_count = Stored(CountLimit)

\* C23: the request of a unit carries reference images exactly when the
\* capability entry of the model it was submitted for declares image-input
\* support and at least one reference was set; it then carries the references
\* set, and otherwise the prompt text alone.
C23_ReferencesIffSupported ==
    \A c \in DOMAIN calls : \A i \in DOMAIN calls[c].units :
        LET submitted == calls[c].atCall
            request == calls[c].units[i].request
            carries == Len(request.images) > 0
        IN  /\ carries <=> /\ MODEL_CONFIGS[submitted.model].supportsImageInput
                            /\ Len(submitted.references) > 0
            /\ carries => /\ request.images = submitted.references
                           /\ request.content = "parts"
            /\ ~carries => /\ request.content = "string"
                            /\ request.text = submitted.prompt

\* C23: a request for a model without image-input support went out with the
\* prompt alone although a reference was set, and a request for a model with
\* image-input support went out with the references set
C23_Witness ==
    /\ \E c \in DOMAIN calls : \E i \in DOMAIN calls[c].units :
          /\ ~MODEL_CONFIGS[calls[c].atCall.model].supportsImageInput
          /\ Len(calls[c].atCall.references) > 0
          /\ calls[c].units[i].request.images = << >>
    /\ \E c \in DOMAIN calls : \E i \in DOMAIN calls[c].units :
          /\ MODEL_CONFIGS[calls[c].atCall.model].supportsImageInput
          /\ Len(calls[c].units[i].request.images) > 0

\* C24: for every model of the capability table a request carries exactly one
\* kind of sizing parameter: an image_config object (image size and aspect
\* ratio) when the entry of the model declares image-size support, and
\* otherwise a top-level aspect_ratio; each holds the values submitted.
C24_OneSizingParameter ==
    \A c \in DOMAIN calls : \A i \in DOMAIN calls[c].units :
        LET submitted == calls[c].atCall
            request == calls[c].units[i].request
            config == MODEL_CONFIGS[submitted.model]
        IN  /\ (request.image_config # << >>) # (request.aspect_ratio # NoValue)
            /\ request.image_config # << >> <=> config.supportsImageSize
            /\ request.image_config # << >> =>
                  request.image_config[1].aspect_ratio = submitted.aspectRatio
            /\ request.aspect_ratio # NoValue =>
                  request.aspect_ratio = submitted.aspectRatio

\* C24: a request went out for a model with image-size support, with an
\* image_config, and another for a model of the table without it, with a
\* top-level aspect_ratio
C24_Witness ==
    /\ \E c \in DOMAIN calls : \E i \in DOMAIN calls[c].units :
          /\ MODEL_CONFIGS[calls[c].atCall.model].supportsImageSize
          /\ calls[c].units[i].request.image_config # << >>
    /\ \E c \in DOMAIN calls : \E i \in DOMAIN calls[c].units :
          /\ calls[c].atCall.model = "sourceful/riverflow-v2-max-preview"
          /\ calls[c].units[i].request.aspect_ratio # NoValue

\* the sequence without the entries equal to x
RECURSIVE Without(_, _)
Without(s, x) ==
    IF s = << >> THEN << >>
    ELSE IF Head(s) = x THEN Without(Tail(s), x)
    ELSE <<Head(s)>> \o Without(Tail(s), x)

\* C25: batches are tracked independently: a valid submission made while other
\* batches are active adds its batch after them and sends its requests; the
\* settlement of a unit changes the counters of its own batch only; and the
\* completion of a batch removes that batch, and only it, from
\* state.pendingBatches.
C25_IndependentBatches ==
    [][/\ (GenerateImages /\ Trim(promptInput) # << >> /\ apiKey # "") =>
            /\ Len(calls') = Len(calls) + 1
            /\ pendingBatches' = Append(pendingBatches, Len(calls'))
            /\ \A d \in DOMAIN calls : calls'[d] = calls[d]
            /\ calls'[Len(calls')].phase = "running"
            /\ \A i \in 1..imageCount :
                  calls'[Len(calls')].units[i].status = "inflight"
       /\ \A c \in DOMAIN calls : \A i \in DOMAIN calls[c].units :
            (\/ UnitFailed(c, i)
             \/ \E url \in ResultUrls : \E rnd \in 0..(RandomLevels - 1) :
                   UnitResolved(c, i, url, rnd)) =>
               /\ pendingBatches' = pendingBatches
               /\ \A d \in DOMAIN calls : d # c => calls'[d] = calls[d]
       /\ \A c \in DOMAIN calls :
            Finalize(c) =>
               /\ pendingBatches' = Without(pendingBatches, c)
               /\ \A d \in DOMAIN calls : d # c => calls'[d] = calls[d]]_vars

\* the placeholders that the gallery shows for the batch of call c
PlaceholdersShown(c) == Cardinality({k \in 1..Len(view.placeholders) : view.placeholders[k] = c})

\* C26: a submission that passes validation puts its batch in
\* state.pendingBatches with completed = failed = 0 before any of its units
\* settles; and in every state the gallery shows, for each pending batch,
\* count - completed - failed placeholders, a number that is never negative.
C26_PlaceholdersMatchCounters ==
    /\ [][(GenerateImages /\ Trim(promptInput) # << >> /\ apiKey # "") =>
            LET new == Len(calls') IN
            /\ new = Len(calls) + 1
            /\ new \in {pendingBatches'[p] : p \in 1..Len(pendingBatches')}
            /\ calls'[new].batch.completed = 0
            /\ calls'[new].batch.failed = 0
            /\ calls'[new].batch.count = imageCount
            /\ Cardinality({k \in 1..Len(view'.placeholders) :
                                view'.placeholders[k] = new}) = imageCount]_vars
    /\ [](\A c \in Active :
            /\ PendingCount(calls[c].batch) >= 0
            /\ PlaceholdersShown(c) = PendingCount(calls[c].batch))

\* the index that the unit of a record had in the launching loop of its batch
RequestIndex(r) == (r.id \div RandomLevels) - DateValue(r.createdAt)

\* C27: a unit that resolves puts its record at the front of state.images,
\* ahead of every record already there, whatever its index in the batch: the
\* records of a batch appear in the order their requests resolved, the last
\* resolved first.
C27_ResolutionOrder ==
    [][\A c \in DOMAIN calls : \A i \in DOMAIN calls[c].units :
         \A url \in ResultUrls : \A rnd \in 0..(RandomLevels - 1) :
            UnitResolved(c, i, url, rnd) =>
               /\ Len(calls'[c].inserted) = Len(calls[c].inserted) + 1
               /\ images' = <<calls'[c].inserted[Len(calls'[c].inserted)]>> \o images
               /\ RequestIndex(Head(images')) = i - 1]_vars

\* C27: both units of a batch of two have resolved, the second of the
\* launching loop first: its record is behind the record of the first
C27_Witness ==
    \E c \in DOMAIN calls :
        /\ Len(calls[c].inserted) = 2
        /\ RequestIndex(calls[c].inserted[1]) = 1
        /\ RequestIndex(calls[c].inserted[2]) = 0
        /\ images = <<calls[c].inserted[2], calls[c].inserted[1]>>

\* the connections that the transactions of the operations called were made on
ConnectionsUsed == {idb.ops[o].conn : o \in DOMAIN idb.ops} \ {0}

\* C28: the store is opened lazily and once: no connection is opened before
\* the first store operation, and whatever operations are called (several
\* before an open has completed, or after an earlier open failed) at most one
\* connection is opened and used.
C28_OneConnection ==
    /\ idb.ops = << >> => idb.opened = 0
    /\ idb.opened <= 1
    /\ Cardinality(ConnectionsUsed) <= 1

\* C29: the number of reference images that a request carries never exceeds
\* the maxReferences of the model it is sent to.
C29_ReferencesWithinMax ==
    \A c \in DOMAIN calls : \A i \in DOMAIN calls[c].units :
        Len(calls[c].units[i].request.images)
            <= MODEL_CONFIGS[calls[c].units[i].request.model].maxReferences

\* C30: whenever a delete handler can fire, the index bound to it designates
\* the record shown on its card: card i of the gallery shows the record at
\* position i of state.images, also while an earlier delete or a clear is
\* waiting for the store and after a unit has inserted a record.
C30_IndexDesignatesCard ==
    Idle => \A i \in 1..Len(view.cards) :
               /\ i <= Len(images)
               /\ images[i] = view.cards[i]

\* C31: a unit that settles changes the counters of its batch exactly once: it
\* adds one to completed or one to failed, never to both, also when the
\* re-render inside its completion handler raises after the record was
\* inserted; and no other step changes the counters of a batch.
C31_CountedOnce ==
    [][\A c \in DOMAIN calls :
          LET before == calls[c].batch
              after == calls'[c].batch
              settles == \E i \in DOMAIN calls[c].units :
                            \/ UnitFailed(c, i)
                            \/ \E url \in ResultUrls : \E rnd \in 0..(RandomLevels - 1) :
                                  UnitResolved(c, i, url, rnd)
          IN  c \in DOMAIN calls' =>
                IF settles
                THEN \/ /\ after.completed = before.completed + 1
                        /\ after.failed = before.failed
                     \/ /\ after.completed = before.completed
                        /\ after.failed = before.failed + 1
                ELSE /\ after.completed = before.completed
                     /\ after.failed = before.failed]_vars

\* C32: a unit that inserts a record into state.images hands that record to
\* the store once (one put with that record, issued in the same handler), and
\* a unit that fails issues no store operation.
C32_OnePutPerRecord ==
    [][\A c \in DOMAIN calls : \A i \in DOMAIN calls[c].units :
          /\ UnitFailed(c, i) => storeQ' = storeQ
          /\ \A url \in ResultUrls : \A rnd \in 0..(RandomLevels - 1) :
                UnitResolved(c, i, url, rnd) =>
                   /\ Len(images') = Len(images) + 1
                   /\ storeQ' = Append(storeQ, [op |-> "put", arg |-> Head(images')])]_vars

\* a clear of the store has been issued and has not settled
ClearPending == \E q \in 1..Len(storeQ) : storeQ[q].op = "clear"

\* C33: clearing the gallery while batches are in flight empties state.images
\* and leaves state.pendingBatches and the counters of every batch as they
\* are, when the clear is clicked and when the store clear settles; a unit
\* that succeeds after the clear is inserted into state.images and handed to
\* the store.
C33_ClearDuringFlight ==
    [][/\ ClearClick => /\ images' = << >>
                         /\ pendingBatches' = pendingBatches
                         /\ calls' = calls
       /\ \A ok \in BOOLEAN :
             ClearAllDone(ok) => /\ images' = images
                                 /\ pendingBatches' = pendingBatches
                                 /\ calls' = calls
       /\ \A c \in DOMAIN calls : \A i \in DOMAIN calls[c].units :
             \A url \in ResultUrls : \A rnd \in 0..(RandomLevels - 1) :
                (ClearPending /\ UnitResolved(c, i, url, rnd)) =>
                   /\ Len(images') = Len(images) + 1
                   /\ Head(images').url = url
                   /\ Len(storeQ') = Len(storeQ) + 1
                   /\ storeQ'[Len(storeQ')] = [op |-> "put", arg |-> Head(images')]]_vars

\* C34: localStorage mirrors the settings in memory: once the page is ready,
\* what a restart would restore for state.selectedModel, state.imageSize,
\* state.imageQuality, state.aspectRatio and state.imageCount is the value in
\* memory, after a model selection, a size or aspect-ratio toggle, a count
\* change or a recreate.
C34_PrefsMirrorSettings ==
    phase = "ready" =>
        /\ selectedModel = GetItemOr(prefs, "imagen_model", "google/gemini-2.5-flash-image")
        /\ imageSize = GetItemOr(prefs, "imagen_size", "1024x1024")
        /\ imageQuality = GetItemOr(prefs, "imagen_quality", "1K")
        /\ aspectRatio = GetItemOr(prefs, "imagen_aspect_ratio", "1:1")
        /\ imageCount = ParseIntOr(prefs, "imagen_count", 1)

\* the url is '' or one that sanitizeImageUrl lets through
SafeUrl(url) == url = "" \/ StartsWith(url, "data:image/") \/ StartsWith(url, "https://")

\* C35: every image url written into the page or into a link has passed
\* sanitizeImageUrl: the src of the gallery cards, of the modal image and of
\* the reference slots, and the href of both download links, are data:image/
\* URIs or https:// URLs (or empty), also after use-as-reference or recreate.
C35_OnlySanitizedUrls ==
    /\ \A k \in 1..Len(view.cards) :
          /\ SafeUrl(CardSrc(view.cards[k]))
          /\ SafeUrl(DownloadByIndexHref(view.cards[k]))
    /\ currentImage # << >> =>
          /\ SafeUrl(ModalSrc(currentImage[1]))
          /\ SafeUrl(DownloadCurrentHref(currentImage[1]))
    /\ \A k \in 1..Len(references) : SafeUrl(ReferenceSlotSrc(references[k]))

\* no handler is suspended between a change of the state and its render: the
\* page is ready, no continuation of generateImages is queued, and no delete
\* or clear is waiting for the store
NoHandlerSuspended ==
    /\ Idle
    /\ \A q \in 1..Len(storeQ) : storeQ[q].op = "put"

\* a unit of an active batch is still in flight
PendingUnit ==
    \E c \in Active : \E i \in DOMAIN calls[c].units :
        calls[c].units[i].status = "inflight"

\* C36: when no handler is suspended the gallery view is the projection of
\* the state: the placeholders of the active batches (count - completed -
\* failed for each) first, then one card per record of state.images in order,
\* and the empty-gallery indicator exactly when there is no record and no
\* pending unit.
C36_ViewIsProjection ==
    NoHandlerSuspended =>
        /\ view.cards = images
        /\ \A k \in 1..Len(view.placeholders) : view.placeholders[k] \in Active
        /\ \A c \in Active : PlaceholdersShown(c) = PendingCount(calls[c].batch)
        /\ view.empty <=> (Len(images) = 0 /\ ~PendingUnit)

====
